---- MODULE Spec2Model ----
(***************************************************************************)
(* Entry controller of the laundry back end (src/src/models/StaffDetails.js *)
(* lines 51-670): createNewentry, getAllEntry, updateEntry, getEntryById,   *)
(* deleteEntry and toggleVisibility over the Entry collection, the          *)
(* ReceiptNumber counter record and the EntryStat summary record.           *)
(*                                                                         *)
(* Every handler is an async function: it runs without interruption up to   *)
(* each `await` of a storage call, and other requests run while the call is *)
(* pending.  One action of the model is one such uninterrupted segment,     *)
(* starting with the completion of the storage call that was awaited.       *)
(***************************************************************************)
EXTENDS Integers, Sequences, FiniteSets, TLC

\* ------------------------------------------------------------------ bounds
NumProcs == 3       \* requests served (each slot serves one request)
MaxTime == 1        \* last instant of the clock
Seed == 1           \* currentReceiptNumber of the seeded counter record

Procs == 1..NumProcs

\* ------------------------------------------------------------ JS values
Undefined == "undefined"
Absent == <<>>                       \* a field that is not set / a null result
Statuses == {"pending", "collected", "processedAndPacked", "delivered"}
Customers == {"c1"}                  \* the Customer collection (external)

Digits == <<"0", "1", "2", "3", "4", "5", "6", "7", "8", "9">>

RECURSIVE String(_)
String(n) == IF n < 10 THEN Digits[n + 1]
             ELSE String(n \div 10) \o Digits[(n % 10) + 1]

RECURSIVE padStart(_, _, _)
padStart(s, targetLength, fill) ==
    IF Len(s) >= targetLength THEN s
    ELSE padStart(fill \o s, targetLength, fill)

ReceiptNoOf(n) == padStart(String(n), 4, "0")

\* ------------------------------------------------------------------ state
VARIABLES
    receiptRecord,   \* ReceiptNumber collection: <<>> or <<currentReceiptNumber>>
    entries,         \* Entry collection: id -> document
    nextId,          \* next fresh _id
    entryStat,       \* EntryStat summary record
    now,             \* the clock read by new Date()
    pc,              \* per request: the await it is suspended at
    req,             \* per request: handler, req.params.id, req.body
    loc,             \* per request: the handler's local variables
    res,             \* per request: the response sent (status 0: none yet)
    handed           \* history: receipt numbers whose allocation completed

vars == <<receiptRecord, entries, nextId, entryStat, now, pc, req, loc, res,
          handed>>

NoBody == [status |-> Undefined, receiptNo |-> Undefined, deliveryDate |-> Absent,
           pickupDate |-> Absent, processedAndPackedDate |-> Absent]
\* A request: the handler, req.params.id, req.query.showAll, req.body.  Of a
\* creation body the model keeps whether the required fields are there and
\* the customerId; of an update, the body as received (patch) and as the
\* handler rewrites it (body).
NoReq == [op |-> "none", id |-> 0, showAll |-> Undefined, required |-> FALSE,
          customerId |-> Undefined, patch |-> NoBody, body |-> NoBody]

\* Locals of a handler.  receiptNo, cur: createNewentry's receiptNo and the
\* loaded receiptRecord.currentReceiptNumber; visible: the loaded entry's flag
\* in toggleVisibility.  The rest is history kept for the properties: read
\* (the flag toggleVisibility loaded), readAt (the value of new Date() in
\* updateEntry), newId (the entry this request persisted), found (the store
\* call matched a document), threw (the catch block ran), statsCalls and
\* statsFailed (calls of manualUpdateStats, and whether one failed), overwrote
\* (the update replaced a stamp of the status the entry already had).
NoLoc == [receiptNo |-> Undefined, cur |-> 0, read |-> FALSE, visible |-> FALSE,
          readAt |-> Absent, statsCalls |-> 0, statsFailed |-> FALSE, newId |-> 0,
          found |-> FALSE, threw |-> FALSE, overwrote |-> FALSE]

NoRes == [status |-> 0, data |-> <<>>]

\* Schema defaults of a new Entry document.
NewEntry(receiptNo) ==
    [receiptNo |-> receiptNo, visible |-> TRUE, status |-> "pending",
     pickupDate |-> Absent, processedAndPackedDate |-> Absent,
     deliveryDate |-> Absent]

ComputeStats(es) ==
    [s \in Statuses |-> Cardinality({e \in DOMAIN es : es[e].status = s})]

Init ==
    /\ receiptRecord \in {Absent, <<Seed>>}
    /\ entries = <<>>
    /\ nextId = 1
    /\ entryStat = ComputeStats(<<>>)
    /\ now = 0
    /\ pc = [p \in Procs |-> "idle"]
    /\ req = [p \in Procs |-> NoReq]
    /\ loc = [p \in Procs |-> NoLoc]
    /\ res = [p \in Procs |-> NoRes]
    /\ handed = <<>>

\* res.status(s).json(...): the handler returns.
RespondData(p, s, data) ==
    /\ pc' = [pc EXCEPT ![p] = "done"]
    /\ res' = [res EXCEPT ![p] = [status |-> s, data |-> data]]

Respond(p, s) == RespondData(p, s, <<>>)

\* The catch block of a handler: the error response, nothing else.
Catch(p, s) ==
    /\ Respond(p, s)
    /\ loc' = [loc EXCEPT ![p].threw = TRUE]

\* The ids a request names: those handed out so far and the next one, which
\* matches no entry (yet).
TargetIds == 1..nextId

\* A request arrives at slot p: slots are numbered in order of arrival.
Arrives(p) ==
    /\ pc[p] = "idle"
    /\ \A q \in Procs : q < p => pc[q] # "idle"

Goto(p, label) ==
    /\ pc' = [pc EXCEPT ![p] = label]
    /\ UNCHANGED res

Tick ==
    /\ now < MaxTime
    /\ now' = now + 1
    /\ UNCHANGED <<receiptRecord, entries, nextId, entryStat, pc, req, loc, res,
                   handed>>

\* manualUpdateStats(): recompute the summary; a failure is logged and
\* swallowed, the summary stays stale.
ManualUpdateStats(ok) ==
    entryStat' = IF ok THEN ComputeStats(entries) ELSE entryStat

\* --------------------------------------------------------- createNewentry
\* Lines 66-89: the required-field check (a missing pickupAndDelivery object
\* makes the property read throw, and the catch answers 400), then
\* Customer.findById.
CreateBegin(p) ==
    /\ Arrives(p)
    /\ \E customer \in {Undefined, "Asha"},
          customerId \in {Undefined, "c1", "c2"},
          pickupAndDelivery \in {Absent, <<[expectedDeliveryDate |-> Absent]>>,
                                 <<[expectedDeliveryDate |-> <<MaxTime>>]>>},
          ok \in BOOLEAN :
         LET typeError == /\ customer # Undefined
                          /\ customerId # Undefined
                          /\ pickupAndDelivery = Absent
             missing == \/ customer = Undefined
                        \/ customerId = Undefined
                        \/ pickupAndDelivery[1].expectedDeliveryDate = Absent
         IN  /\ IF typeError THEN Catch(p, 400)
                ELSE IF missing THEN Respond(p, 400) /\ UNCHANGED loc
                ELSE IF ~ok THEN Catch(p, 400)
                ELSE IF customerId \notin Customers
                THEN Respond(p, 404) /\ UNCHANGED loc
                ELSE Goto(p, "c_findReceipt") /\ UNCHANGED loc
             /\ req' = [req EXCEPT ![p] =
                          [NoReq EXCEPT !.op = "create",
                                        !.required = ~typeError /\ ~missing,
                                        !.customerId = customerId]]
    /\ UNCHANGED <<receiptRecord, entries, nextId, entryStat, now, handed>>

\* Variant: a missing counter record is seeded on the fly.
CreateFindReceiptSeeds(p) ==
    /\ pc[p] = "c_findReceipt"
    /\ \E ok \in BOOLEAN :
         IF ~ok THEN Catch(p, 400) /\ UNCHANGED receiptRecord
         ELSE LET cur == IF receiptRecord = Absent THEN Seed ELSE receiptRecord[1]
              IN  /\ loc' = [loc EXCEPT ![p].receiptNo = ReceiptNoOf(cur),
                                        ![p].cur = cur + 1]
                  /\ receiptRecord' = <<cur>>
                  /\ Goto(p, "c_saveReceipt")
    /\ UNCHANGED <<entries, nextId, entryStat, now, req, handed>>

\* Lines 106-121: ReceiptNumber.findOne() returns; receiptNo is computed from
\* the value read and the incremented value is handed to receiptRecord.save().
CreateFindReceipt(p) ==
    /\ pc[p] = "c_findReceipt"
    /\ \E ok \in BOOLEAN :
         IF ~ok THEN Catch(p, 400)
         ELSE IF receiptRecord = Absent THEN Respond(p, 500) /\ UNCHANGED loc
         ELSE /\ loc' = [loc EXCEPT ![p].receiptNo = ReceiptNoOf(receiptRecord[1]),
                                    ![p].cur = receiptRecord[1] + 1]
              /\ Goto(p, "c_saveReceipt")
    /\ UNCHANGED <<receiptRecord, entries, nextId, entryStat, now, req, handed>>

\* The write receiptRecord.save() sends: $set of the modified path.
SaveReceiptRecord(p) == <<loc[p].cur>>

\* Lines 121-137: receiptRecord.save() returns; the Entry document is built
\* and handed to newEntry.save().
CreateSaveReceipt(p) ==
    /\ pc[p] = "c_saveReceipt"
    /\ \E ok \in BOOLEAN :
         IF ~ok THEN Catch(p, 400) /\ UNCHANGED <<receiptRecord, handed>>
         ELSE /\ receiptRecord' = SaveReceiptRecord(p)
              /\ handed' = Append(handed, loc[p].receiptNo)
              /\ Goto(p, "c_saveEntry")
              /\ UNCHANGED loc
    /\ UNCHANGED <<entries, nextId, entryStat, now, req>>

\* Lines 137-140: newEntry.save() returns (or throws a validation or storage
\* error, caught at line 147).
CreateSaveEntry(p) ==
    /\ pc[p] = "c_saveEntry"
    /\ \E ok \in BOOLEAN :
         IF ~ok THEN Catch(p, 400) /\ UNCHANGED <<entries, nextId>>
         ELSE /\ entries' = [e \in DOMAIN entries \cup {nextId} |->
                               IF e = nextId THEN NewEntry(loc[p].receiptNo)
                               ELSE entries[e]]
              /\ nextId' = nextId + 1
              /\ loc' = [loc EXCEPT ![p].newId = nextId]
              /\ Goto(p, "c_stats")
    /\ UNCHANGED <<receiptRecord, entryStat, now, req, handed>>

\* Variant: a failure of the recompute reaches the handler's catch block.
AfterStatsPropagates(p, label, status) ==
    /\ pc[p] = label
    /\ \E ok \in BOOLEAN :
         /\ ManualUpdateStats(ok)
         /\ loc' = [loc EXCEPT ![p].statsCalls = @ + 1, ![p].statsFailed = ~ok,
                               ![p].threw = ~ok]
         /\ Respond(p, IF ok THEN status ELSE 400)
    /\ UNCHANGED <<receiptRecord, entries, nextId, now, req, handed>>

\* Lines 140-146 (create), 215-221 (update), 281-285 (delete): the awaited
\* manualUpdateStats() returns and the success response is sent.
AfterStats(p, label, status) ==
    /\ pc[p] = label
    /\ \E ok \in BOOLEAN :
         /\ ManualUpdateStats(ok)
         /\ loc' = [loc EXCEPT ![p].statsCalls = @ + 1, ![p].statsFailed = ~ok]
    /\ Respond(p, status)
    /\ UNCHANGED <<receiptRecord, entries, nextId, now, req, handed>>

CreateStats(p) == AfterStats(p, "c_stats", 201)

\* ------------------------------------------------------------ updateEntry
\* Variant: a stamp the body already carries is kept.
StampBodyKeepsGiven(body, t) ==
    [body EXCEPT
       !.deliveryDate =
           IF body.status = "delivered" /\ @ = Absent THEN <<t>> ELSE @,
       !.pickupDate = IF body.status = "collected" THEN <<t>> ELSE @,
       !.processedAndPackedDate =
           IF body.status = "processedAndPacked" THEN <<t>> ELSE @]

\* Lines 187-198: the status-driven stamps written into req.body.
StampBody(body, t) ==
    [body EXCEPT
       !.deliveryDate = IF body.status = "delivered" THEN <<t>> ELSE @,
       !.pickupDate = IF body.status = "collected" THEN <<t>> ELSE @,
       !.processedAndPackedDate =
           IF body.status = "processedAndPacked" THEN <<t>> ELSE @]

\* Lines 171-200: the body is prepared (new Date() is read here) and handed
\* to Entry.findByIdAndUpdate.
UpdateStart(p) ==
    /\ Arrives(p)
    /\ \E id \in TargetIds,
          status \in Statuses \cup {Undefined},
          receiptNo \in {Undefined, ReceiptNoOf(Seed + 1)},
          deliveryDate \in {Absent, <<0>>} :
         LET patch == [NoBody EXCEPT !.status = status,
                                        !.receiptNo = receiptNo,
                                        !.deliveryDate = deliveryDate]
         IN  req' = [req EXCEPT ![p] =
                       [NoReq EXCEPT !.op = "update", !.id = id,
                                     !.patch = patch,
                                     !.body = StampBody(patch, now)]]
    /\ loc' = [loc EXCEPT ![p].readAt = <<now>>]
    /\ Goto(p, "u_update")
    /\ UNCHANGED <<receiptRecord, entries, nextId, entryStat, now, handed>>

\* Variant: the document is replaced by the body (overwrite instead of $set).
ApplyBodyReplace(doc, body) ==
    [doc EXCEPT
       !.status = IF body.status # Undefined THEN body.status ELSE @,
       !.receiptNo = IF body.receiptNo # Undefined THEN body.receiptNo ELSE @,
       !.deliveryDate = body.deliveryDate,
       !.pickupDate = body.pickupDate,
       !.processedAndPackedDate = body.processedAndPackedDate]

\* What findByIdAndUpdate(id, req.body) writes: every key of the body.
ApplyBody(doc, body) ==
    [doc EXCEPT
       !.status = IF body.status # Undefined THEN body.status ELSE @,
       !.receiptNo = IF body.receiptNo # Undefined THEN body.receiptNo ELSE @,
       !.deliveryDate = IF body.deliveryDate # Absent THEN body.deliveryDate ELSE @,
       !.pickupDate = IF body.pickupDate # Absent THEN body.pickupDate ELSE @,
       !.processedAndPackedDate =
           IF body.processedAndPackedDate # Absent
           THEN body.processedAndPackedDate ELSE @]

\* History: the update restamps an entry that is already in the status it
\* sets, with a stamp other than the one it holds.
Overwrites(doc, body) ==
    /\ body.status = doc.status
    /\ \/ body.status = "delivered" /\ doc.deliveryDate \notin {Absent, body.deliveryDate}
       \/ body.status = "collected" /\ doc.pickupDate \notin {Absent, body.pickupDate}
       \/ /\ body.status = "processedAndPacked"
          /\ doc.processedAndPackedDate \notin {Absent, body.processedAndPackedDate}

\* Variant: the null check comes after the recompute.
UpdateApplyRecomputes(p) ==
    /\ pc[p] = "u_update"
    /\ \E ok \in BOOLEAN :
         IF ~ok
         THEN /\ RespondData(p, 400, <<>>)
              /\ loc' = [loc EXCEPT ![p].threw = TRUE, ![p].readAt = Absent]
              /\ UNCHANGED entries
         ELSE /\ entries' = IF req[p].id \in DOMAIN entries
                            THEN [entries EXCEPT
                                    ![req[p].id] = ApplyBody(@, req[p].body)]
                            ELSE entries
              /\ loc' = [loc EXCEPT ![p].found = req[p].id \in DOMAIN entries,
                                    ![p].readAt = Absent]
              /\ Goto(p, "u_stats")
    /\ req' = [req EXCEPT ![p].body = NoBody, ![p].patch = NoBody]
    /\ UNCHANGED <<receiptRecord, nextId, entryStat, now, handed>>

\* Lines 200-215: findByIdAndUpdate returns the updated document or null, or
\* throws (cast or validation error, caught at line 222).
UpdateApply(p) ==
    /\ pc[p] = "u_update"
    /\ \E ok \in BOOLEAN :
         IF ~ok
         THEN /\ RespondData(p, 400, <<>>)
              /\ loc' = [loc EXCEPT ![p].threw = TRUE, ![p].readAt = Absent]
              /\ UNCHANGED entries
         ELSE IF req[p].id \notin DOMAIN entries
         THEN /\ Respond(p, 404)
              /\ loc' = [loc EXCEPT ![p].readAt = Absent]
              /\ UNCHANGED entries
         ELSE /\ entries' = [entries EXCEPT
                               ![req[p].id] = ApplyBody(@, req[p].body)]
              /\ loc' = [loc EXCEPT
                           ![p].found = TRUE, ![p].readAt = Absent,
                           ![p].overwrote =
                               Overwrites(entries[req[p].id], req[p].body)]
              /\ Goto(p, "u_stats")
    /\ req' = [req EXCEPT ![p].body = NoBody,     \* the body is not read again
                          ![p].patch = NoBody]
    /\ UNCHANGED <<receiptRecord, nextId, entryStat, now, handed>>

UpdateStats(p) == AfterStats(p, "u_stats", 200)

\* ------------------------------------------------------------ deleteEntry
\* Lines 273-281: findByIdAndDelete returns the removed document or null.
DeleteEntry(p) ==
    /\ Arrives(p)
    /\ \E id \in TargetIds, ok \in BOOLEAN :
         /\ req' = [req EXCEPT ![p] = [NoReq EXCEPT !.op = "delete", !.id = id]]
         /\ IF ~ok THEN Catch(p, 500) /\ UNCHANGED entries
            ELSE IF id \notin DOMAIN entries
            THEN Respond(p, 404) /\ UNCHANGED <<entries, loc>>
            ELSE /\ entries' = [e \in DOMAIN entries \ {id} |-> entries[e]]
                 /\ loc' = [loc EXCEPT ![p].found = TRUE]
                 /\ Goto(p, "d_stats")
    /\ UNCHANGED <<receiptRecord, nextId, entryStat, now, handed>>

DeleteStats(p) == AfterStats(p, "d_stats", 200)

\* ------------------------------------------------------- toggleVisibility
\* Line 636: the flag the handler will save.
Toggled(visible) == ~visible

\* Lines 625-637: Entry.findById returns; the flag is flipped on the loaded
\* document and entry.save() is issued.
ToggleFind(p) ==
    /\ Arrives(p)
    /\ \E id \in TargetIds, ok \in BOOLEAN :
         /\ req' = [req EXCEPT ![p] = [NoReq EXCEPT !.op = "toggle", !.id = id]]
         /\ IF ~ok THEN Catch(p, 500)
            ELSE IF id \notin DOMAIN entries THEN Respond(p, 404) /\ UNCHANGED loc
            ELSE /\ loc' = [loc EXCEPT ![p].read = entries[id].visible,
                                       ![p].visible = Toggled(entries[id].visible),
                                       ![p].found = TRUE]
                 /\ Goto(p, "t_save")
    /\ UNCHANGED <<receiptRecord, entries, nextId, entryStat, now, handed>>

\* Lines 637-643: entry.save() writes the modified path `visible`; it throws
\* when the document is gone (caught at line 644).
ToggleSave(p) ==
    /\ pc[p] = "t_save"
    /\ \E ok \in BOOLEAN :
         IF ~ok \/ req[p].id \notin DOMAIN entries
         THEN Catch(p, 500) /\ UNCHANGED entries
         ELSE /\ entries' = [entries EXCEPT ![req[p].id].visible = loc[p].visible]
              /\ RespondData(p, 200, <<loc[p].visible>>)
              /\ UNCHANGED loc
    /\ UNCHANGED <<receiptRecord, nextId, entryStat, now, req, handed>>

\* ------------------------------------------------------------------ reads
RECURSIVE SortDesc(_)
SortDesc(S) ==
    IF S = {} THEN <<>>
    ELSE LET m == CHOOSE x \in S : \A y \in S : y <= x
         IN  <<m>> \o SortDesc(S \ {m})

\* Variant: any showAll value lifts the filter.
ListQueryAnyValue(showAll, doc) == showAll # Undefined \/ doc.visible = TRUE

\* Lines 154-160: the query getAllEntry builds.
ListQuery(showAll, doc) == showAll = "true" \/ doc.visible = TRUE

\* Lines 152-167.  Ids are handed out in creation order, so createdAt
\* descending is id descending.
GetAllEntry(p) ==
    /\ Arrives(p)
    /\ \E showAll \in {Undefined, "true", "false"}, ok \in BOOLEAN :
         /\ req' = [req EXCEPT ![p] = [NoReq EXCEPT !.op = "list",
                                                    !.showAll = showAll]]
         /\ IF ok
            THEN /\ RespondData(p, 200, SortDesc({e \in DOMAIN entries :
                                                   ListQuery(showAll, entries[e])}))
                 /\ UNCHANGED loc
            ELSE Catch(p, 500)
    /\ UNCHANGED <<receiptRecord, entries, nextId, entryStat, now, handed>>

\* Lines 229-269: the tax join changes the returned copy only.
GetEntryById(p) ==
    /\ Arrives(p)
    /\ \E id \in TargetIds, ok \in BOOLEAN :
         /\ req' = [req EXCEPT ![p] = [NoReq EXCEPT !.op = "get", !.id = id]]
         /\ IF ~ok THEN Catch(p, 500)
            ELSE IF id \notin DOMAIN entries THEN Respond(p, 404) /\ UNCHANGED loc
            ELSE RespondData(p, 200, <<entries[id]>>) /\ UNCHANGED loc
    /\ UNCHANGED <<receiptRecord, entries, nextId, entryStat, now, handed>>

\* --------------------------------------------------------- specifications
Create(p) ==
    \/ CreateBegin(p)
    \/ CreateFindReceipt(p)
    \/ CreateSaveReceipt(p)
    \/ CreateSaveEntry(p)
    \/ CreateStats(p)

Update(p) == UpdateStart(p) \/ UpdateApply(p) \/ UpdateStats(p)

Delete(p) == DeleteEntry(p) \/ DeleteStats(p)

Toggle(p) == ToggleFind(p) \/ ToggleSave(p)

Next ==
    \/ \E p \in Procs : \/ Create(p) \/ Update(p) \/ Delete(p) \/ Toggle(p)
                        \/ GetAllEntry(p) \/ GetEntryById(p)
    \/ Tick

Spec == Init /\ [][Next]_vars

\* Creation requests only.
NextCreate == \E p \in Procs : Create(p)

SpecCreate == Init /\ [][NextCreate]_vars

\* ------------------------------------------------------------- properties
Range(f) == {f[i] : i \in DOMAIN f}

StampStatuses == {"delivered", "collected", "processedAndPacked"}

\* The stamp field that goes with a status.
StampField(doc, s) ==
    CASE s = "delivered" -> doc.deliveryDate
      [] s = "collected" -> doc.pickupDate
      [] s = "processedAndPacked" -> doc.processedAndPackedDate

\* The step in which p's findByIdAndUpdate changes its entry.
Applies(p) == pc[p] = "u_update" /\ pc'[p] = "u_stats"

Kept == DOMAIN entries \cap DOMAIN entries'

\* C1: no two persisted entries have the same receiptNo, and no receipt number
\* whose allocation completed for one creation request is allocated to another.
C1_ReceiptNoNeverReused ==
    /\ \A e1, e2 \in DOMAIN entries :
         e1 # e2 => entries[e1].receiptNo # entries[e2].receiptNo
    /\ \A i, j \in 1..Len(handed) : i # j => handed[i] # handed[j]

\* C2: once no creation request is between reading the counter and saving it,
\* the counter is its starting value plus the number N of allocations made,
\* and the numbers handed out are the N consecutive ones from the start.
C2_AllocationsConsecutive ==
    (/\ receiptRecord # Absent
     /\ \A p \in Procs : pc[p] # "c_saveReceipt")
    => /\ receiptRecord[1] = Seed + Len(handed)
       /\ Range(handed) = {ReceiptNoOf(Seed + k) : k \in 0..(Len(handed) - 1)}
       /\ Cardinality(Range(handed)) = Len(handed)

\* C3: no step makes the stored currentReceiptNumber smaller.
C3_CounterMonotonic ==
    [][receiptRecord # Absent =>
         receiptRecord' # Absent /\ receiptRecord'[1] >= receiptRecord[1]]_vars

\* C4: no step changes the receiptNo of an entry.
C4_ReceiptNoImmutable ==
    [][\A e \in Kept : entries'[e].receiptNo = entries[e].receiptNo]_vars

\* What a successful update does to the three stamps: the one of the status
\* the patch sets is the clock value the handler read, whatever the entry or
\* the patch held; the others are the patch's own value, or else stay.
StampsWritten(p) ==
    LET id == req[p].id
        patch == req[p].patch
    IN  \A t \in StampStatuses :
          StampField(entries'[id], t) =
            IF patch.status = t THEN loc[p].readAt
            ELSE IF StampField(patch, t) # Absent THEN StampField(patch, t)
            ELSE StampField(entries[id], t)

\* The update repeats the status the entry is in and has a stamp for.
Repeats(p) ==
    LET id == req[p].id
        s == req[p].patch.status
    IN  /\ s \in StampStatuses
        /\ entries[id].status = s
        /\ StampField(entries[id], s) # Absent

\* C5 (as amended): every successful update that sets status to delivered,
\* collected or processedAndPacked writes the clock value its handler read
\* into the matching stamp, whatever the stamp and the patch held before; an
\* update with another status adds no stamp.
C5_StatusStampsClockRead ==
    [][\A p \in Procs : Applies(p) => StampsWritten(p)]_vars

\* C5 (as stated): the above, and a repeated status update replaces the stamp
\* by a later one.
C5_RepeatStampsLater ==
    [][\A p \in Procs : Applies(p) =>
         /\ StampsWritten(p)
         /\ Repeats(p) =>
              LET s == req[p].patch.status
              IN  StampField(entries'[req[p].id], s)[1]
                    > StampField(entries[req[p].id], s)[1]]_vars

\* C5, its case: an update restamped an entry that was already in the status.
C5_RepeatWitness ==
    \E p \in Procs :
      /\ loc[p].overwrote
      /\ req[p].id \in DOMAIN entries
      /\ entries[req[p].id].status = "delivered"
      /\ entries[req[p].id].deliveryDate = <<MaxTime>>

Mutation(p) == req[p].op \in {"create", "update", "delete"}

Persisted(p) == loc[p].newId # 0 \/ (req[p].op \in {"update", "delete"} /\ loc[p].found)

Success(p) == IF req[p].op = "create" THEN 201 ELSE 200

C9_ListFollowsVisibility ==
    [][\A p \in Procs :
         /\ (pc[p] = "idle" /\ req'[p].op = "list" /\ res'[p].status = 200) =>
              Range(res'[p].data) =
                IF req'[p].showAll = "true" THEN DOMAIN entries
                ELSE {e \in DOMAIN entries : entries[e].visible}
         /\ (pc[p] = "t_save" /\ pc'[p] = "done" /\ res'[p].status = 200) =>
              entries'[req[p].id].visible = ~loc[p].read]_vars

\* C9, its case: a list left out an entry that a toggle had hidden.
C9_HiddenWitness ==
    \E p, q \in Procs :
      /\ req[p].op = "list" /\ res[p].status = 200 /\ req[p].showAll # "true"
      /\ req[q].op = "toggle" /\ res[q].status = 200
      /\ req[q].id \in DOMAIN entries
      /\ ~entries[req[q].id].visible
      /\ req[q].id \notin Range(res[p].data)

\* C10: a create that answers from before the allocation (missing fields 400,
\* unknown customer 404, no counter record 500) changes no record, calls no
\* recompute and seeds no counter; the counter is read only by a request
\* whose required fields and customer passed.
C10_RejectedCreateChangesNothing ==
    [][\A p \in Procs :
         /\ (pc[p] \in {"idle", "c_findReceipt"} /\ req'[p].op = "create"
               /\ pc'[p] = "done") =>
              /\ UNCHANGED <<receiptRecord, entries, nextId, entryStat, handed>>
              /\ res'[p].status \in {400, 404, 500}
              /\ loc'[p].statsCalls = 0 /\ loc'[p].newId = 0
         /\ (pc[p] = "idle" /\ req'[p].op = "create") =>
              /\ UNCHANGED <<receiptRecord, entries, nextId, entryStat, handed>>
              /\ ~req'[p].required => pc'[p] = "done" /\ res'[p].status = 400
              /\ (req'[p].required /\ req'[p].customerId \notin Customers) =>
                   /\ pc'[p] = "done"
                   /\ res'[p].status = IF loc'[p].threw THEN 400 ELSE 404
         /\ (pc[p] = "c_findReceipt" /\ pc'[p] # pc[p]) =>
              /\ receiptRecord' = receiptRecord
              /\ (receiptRecord = Absent /\ ~loc'[p].threw) =>
                   pc'[p] = "done" /\ res'[p].status = 500
         /\ loc'[p].cur # loc[p].cur =>
              /\ req[p].required /\ req[p].customerId \in Customers
              /\ pc[p] = "c_findReceipt"
         /\ receiptRecord' # receiptRecord => receiptRecord # Absent]_vars

\* C10, its case: one create was rejected for each of the three reasons.
C10_RejectedWitness ==
    \E p, q, r \in Procs :
      /\ req[p].op = "create" /\ ~req[p].required /\ res[p].status = 400
      /\ req[q].op = "create" /\ req[q].required /\ res[q].status = 404
      /\ req[r].op = "create" /\ res[r].status = 500
      /\ entries = <<>> /\ receiptRecord = Absent

====
